---- MODULE Spec2Model ----
(***************************************************************************)
(* Model of go-flutter's text input plugin (textinput.go) and of its JSON  *)
(* message codec (plugin/json-message-codec.go).                           *)
(*                                                                         *)
(* The plugin is a single-threaded state machine: the engine's method      *)
(* calls (TextInput.setClient, TextInput.clearClient,                      *)
(* TextInput.setEditingState) and the window's character and key callbacks *)
(* run one at a time on the thread that owns the event loop.  Every action *)
(* below is one complete handler invocation.                               *)
(***************************************************************************)
EXTENDS Integers, Sequences, FiniteSets, TLC

VARIABLES
    goos,            \* runtime.GOOS as seen by InitPlugin: "darwin" or "default"
    clientID,        \* p.clientID
    word,            \* p.word, a sequence of runes
    selectionBase,   \* p.selectionBase
    selectionExtent, \* p.selectionExtent
    clipboard,       \* the window's clipboard string, a sequence of runes
    call,            \* the handler invocation that ran last, with its inputs
    reply,           \* outcome of the last method handler: none, ok, noClient
                     \* (no client is selected), decodeError, or panic
    keyEvents,       \* events the last handler sent on flutter/keyevent
    popRoutes,       \* popRoute invocations the last handler made
    textCalls,       \* calls the last handler made on flutter/textinput
    diag,            \* diagnostic the last handler printed, or "none"
    cpc,             \* codec exercise: position
    msg,             \* codec exercise: the message value
    bin,             \* codec exercise: the bytes produced by EncodeMessage
    dec,             \* codec exercise: what DecodeMessage returned
    pressed,         \* the keyboard: keys the window reports as held down
    engineDown       \* the engine's view of flutter/keyevent: key codes it has
                     \* received a keydown for and no keyup since

store == <<clientID, word, selectionBase, selectionExtent>>
outputs == <<call, reply, keyEvents, popRoutes, textCalls, diag>>
codecVars == <<cpc, msg, bin, dec>>
keyboard == <<pressed, engineDown>>
vars == <<goos, clientID, word, selectionBase, selectionExtent, clipboard,
          call, reply, keyEvents, popRoutes, textCalls, diag, cpc, msg, bin, dec,
          pressed, engineDown>>

(***************************************************************************)
(* Bounds of the model.                                                    *)
(***************************************************************************)
\* longest text the store, the clipboard or a payload holds
MaxLen == 2
\* largest client handle the engine uses
MaxClient == 1

(***************************************************************************)
(* Input alphabets.                                                        *)
(***************************************************************************)
Newline == "\n"
Chars == {"a"}
Runes == Chars \cup {Newline}

RECURSIVE SeqsUpTo(_, _)
SeqsUpTo(S, n) ==
    IF n = 0 THEN {<<>>}
    ELSE LET shorter == SeqsUpTo(S, n - 1)
         IN  shorter \cup {Append(s, x) : s \in {t \in shorter : Len(t) = n - 1}, x \in S}

\* the texts a payload may carry
Texts == SeqsUpTo(Chars, MaxLen)
\* selection indices a payload may carry: one step outside [0, MaxLen] either way
SelValues == (0 - 1)..(MaxLen + 1)
ClientIDs == 0..MaxClient

(***************************************************************************)
(* glfw values the plugin compares against.                                *)
(***************************************************************************)
ModShift == 1
ModControl == 2
ModAlt == 4
ModSuper == 8
AllMods == 0..(ModShift + ModControl + ModAlt + ModSuper)

Release == 0
Press == 1
Repeat == 2
UnknownAction == 3
Actions == {Release, Press, Repeat, UnknownAction}

KeyEscape == 256
KeyEnter == 257
KeyBackspace == 259
KeyDelete == 261
KeyRight == 262
KeyLeft == 263
KeyHome == 268
KeyEnd == 269
KeyA == 65
KeyB == 66
KeyC == 67
KeyV == 86
KeyX == 88
Keys == {KeyEscape, KeyEnter, KeyBackspace, KeyDelete, KeyRight, KeyLeft,
         KeyHome, KeyEnd, KeyA, KeyB, KeyC, KeyV, KeyX}

\* p.keyboardLayout: the shortcut bindings, resolved at initialization
keyboardLayout == [SelectAll |-> KeyA, Copy |-> KeyC, Cut |-> KeyX, Paste |-> KeyV]

(***************************************************************************)
(* Android KeyEvent meta state bits.                                       *)
(***************************************************************************)
androidMetaStateShift == 2 ^ 0
androidMetaStateAlt == 2 ^ 1
androidMetaStateCtrl == 2 ^ 12
androidMetaStateMeta == 2 ^ 16

(***************************************************************************)
(* Integer bit operations, as Go's & and | on non-negative ints.           *)
(***************************************************************************)
RECURSIVE BitAnd(_, _)
BitAnd(x, y) ==
    IF x = 0 \/ y = 0 THEN 0
    ELSE (IF x % 2 = 1 /\ y % 2 = 1 THEN 1 ELSE 0) + 2 * BitAnd(x \div 2, y \div 2)

RECURSIVE BitOr(_, _)
BitOr(x, y) ==
    IF x = 0 THEN y
    ELSE IF y = 0 THEN x
    ELSE (IF x % 2 = 1 \/ y % 2 = 1 THEN 1 ELSE 0) + 2 * BitOr(x \div 2, y \div 2)

conditionalInt(condition, val1) == IF condition THEN val1 ELSE 0

(***************************************************************************)
(* InitPlugin: the modifier roles, chosen once from the host OS.           *)
(***************************************************************************)
modifierKey == IF goos = "darwin" THEN ModSuper ELSE ModControl
wordTravellerKey == IF goos = "darwin" THEN ModAlt ELSE ModControl
wordTravellerKeyShift ==
    IF goos = "darwin" THEN BitOr(ModAlt, ModShift) ELSE BitOr(ModControl, ModShift)

(***************************************************************************)
(* glfwKeyCallback, first switch: the four flags.  A Go switch takes the   *)
(* first case that matches, so at most one flag is set.                    *)
(***************************************************************************)
\* the case of the primary modifier tried before the word traveller's
ClassifyPrimaryFirst(mods) ==
    IF mods = wordTravellerKeyShift
    THEN [modsIsModfifier |-> FALSE, modsIsShift |-> FALSE,
          modsIsWordModifierShift |-> TRUE, modsIsWordModifier |-> FALSE]
    ELSE IF mods = modifierKey
    THEN [modsIsModfifier |-> TRUE, modsIsShift |-> FALSE,
          modsIsWordModifierShift |-> FALSE, modsIsWordModifier |-> FALSE]
    ELSE IF mods = wordTravellerKey
    THEN [modsIsModfifier |-> FALSE, modsIsShift |-> FALSE,
          modsIsWordModifierShift |-> FALSE, modsIsWordModifier |-> TRUE]
    ELSE IF mods = ModShift
    THEN [modsIsModfifier |-> FALSE, modsIsShift |-> TRUE,
          modsIsWordModifierShift |-> FALSE, modsIsWordModifier |-> FALSE]
    ELSE [modsIsModfifier |-> FALSE, modsIsShift |-> FALSE,
          modsIsWordModifierShift |-> FALSE, modsIsWordModifier |-> FALSE]

Classify(mods) ==
    IF mods = wordTravellerKeyShift
    THEN [modsIsModfifier |-> FALSE, modsIsShift |-> FALSE,
          modsIsWordModifierShift |-> TRUE, modsIsWordModifier |-> FALSE]
    ELSE IF mods = wordTravellerKey
    THEN [modsIsModfifier |-> FALSE, modsIsShift |-> FALSE,
          modsIsWordModifierShift |-> FALSE, modsIsWordModifier |-> TRUE]
    ELSE IF mods = modifierKey
    THEN [modsIsModfifier |-> TRUE, modsIsShift |-> FALSE,
          modsIsWordModifierShift |-> FALSE, modsIsWordModifier |-> FALSE]
    ELSE IF mods = ModShift
    THEN [modsIsModfifier |-> FALSE, modsIsShift |-> TRUE,
          modsIsWordModifierShift |-> FALSE, modsIsWordModifier |-> FALSE]
    ELSE [modsIsModfifier |-> FALSE, modsIsShift |-> FALSE,
          modsIsWordModifierShift |-> FALSE, modsIsWordModifier |-> FALSE]

(***************************************************************************)
(* The editing model (insert, deleteRange, moveCursor of the Editing State *)
(* Store).  An editing value is [w, b, e, calls]: text, selection base,    *)
(* selection extent, and the flutter/textinput calls made so far.  The     *)
(* caret is the base; the extent is the anchor of a selection.             *)
(***************************************************************************)
Min(a, b) == IF a < b THEN a ELSE b
Max(a, b) == IF a > b THEN a ELSE b
Clamp(i, n) == IF i < 0 THEN 0 ELSE IF i > n THEN n ELSE i

UpdateCall == [method |-> "TextInputClient.updateEditingState"]
ActionCall(name) == [method |-> "TextInputClient.performAction", action |-> name]

Editing == [w |-> word, b |-> selectionBase, e |-> selectionExtent, calls |-> <<>>]

updateEditingState(E) == [E EXCEPT !.calls = Append(@, UpdateCall)]
performAction(E, name) == [E EXCEPT !.calls = Append(@, ActionCall(name))]

isSelected(E) == E.b # E.e

\* <<start, end, content>> of the selection, indices clamped into the text
GetSelectedText(E) ==
    LET lo == Clamp(Min(E.b, E.e), Len(E.w))
        hi == Clamp(Max(E.b, E.e), Len(E.w))
    IN  <<lo, hi, SubSeq(E.w, lo + 1, hi)>>

\* removes the selected range, if any, and announces the result
RemoveSelectedText(E) ==
    IF isSelected(E)
    THEN LET sel == GetSelectedText(E)
         IN  updateEditingState(
                 [E EXCEPT !.w = SubSeq(E.w, 1, sel[1]) \o SubSeq(E.w, sel[2] + 1, Len(E.w)),
                           !.b = sel[1], !.e = sel[1]])
    ELSE E

\* insert at the caret, replacing any active selection
addChar(E, chars) ==
    LET R == RemoveSelectedText(E)
        at == Clamp(R.b, Len(R.w))
    IN  updateEditingState(
            [R EXCEPT !.w = SubSeq(R.w, 1, at) \o chars \o SubSeq(R.w, at + 1, Len(R.w)),
                      !.b = at + Len(chars), !.e = at + Len(chars)])

IsSeparator(r) == r \in {" ", Newline}

\* start of the line holding index i
LineStart(w, i) ==
    LET c == Clamp(i, Len(w))
        S == {j \in 0..c : j = 0 \/ w[j] = Newline}
    IN  CHOOSE j \in S : \A k \in S : k <= j

\* end of the line holding index i
LineEnd(w, i) ==
    LET c == Clamp(i, Len(w))
        S == {j \in c..Len(w) : j = Len(w) \/ w[j + 1] = Newline}
    IN  CHOOSE j \in S : \A k \in S : j <= k

\* nearest word boundary before index i, clamped at the start of the text
WordLeft(w, i) ==
    LET c == Clamp(i, Len(w))
        S == {j \in 0..c : j = 0 \/ (j < c /\ IsSeparator(w[j]) /\ ~IsSeparator(w[j + 1]))}
    IN  CHOOSE j \in S : \A k \in S : k <= j

\* nearest word boundary after index i, clamped at the end of the text
WordRight(w, i) ==
    LET c == Clamp(i, Len(w))
        S == {j \in c..Len(w) :
                 j = Len(w) \/ (j > c /\ ~IsSeparator(w[j]) /\ IsSeparator(w[j + 1]))}
    IN  CHOOSE j \in S : \A k \in S : j <= k

NoModifier(c) ==
    ~c.modsIsModfifier /\ ~c.modsIsShift /\ ~c.modsIsWordModifierShift /\ ~c.modsIsWordModifier

\* move the caret to index to; extend keeps the anchor
MoveTo(E, to, extend) ==
    updateEditingState(
        IF extend THEN [E EXCEPT !.b = to, !.e = Clamp(E.e, Len(E.w))]
        ELSE [E EXCEPT !.b = to, !.e = to])

MoveCursorHome(E, c) ==
    IF NoModifier(c) THEN MoveTo(E, LineStart(E.w, E.b), FALSE)
    ELSE IF c.modsIsShift THEN MoveTo(E, LineStart(E.w, E.b), TRUE)
    ELSE E

MoveCursorEnd(E, c) ==
    IF NoModifier(c) THEN MoveTo(E, LineEnd(E.w, E.b), FALSE)
    ELSE IF c.modsIsShift THEN MoveTo(E, LineEnd(E.w, E.b), TRUE)
    ELSE E

MoveCursorLeft(E, c) ==
    IF NoModifier(c) THEN MoveTo(E, Clamp(E.b - 1, Len(E.w)), FALSE)
    ELSE IF c.modsIsShift THEN MoveTo(E, Clamp(E.b - 1, Len(E.w)), TRUE)
    ELSE IF c.modsIsWordModifier THEN MoveTo(E, WordLeft(E.w, E.b), FALSE)
    ELSE IF c.modsIsWordModifierShift THEN MoveTo(E, WordLeft(E.w, E.b), TRUE)
    ELSE E

MoveCursorRight(E, c) ==
    IF NoModifier(c) THEN MoveTo(E, Clamp(E.b + 1, Len(E.w)), FALSE)
    ELSE IF c.modsIsShift THEN MoveTo(E, Clamp(E.b + 1, Len(E.w)), TRUE)
    ELSE IF c.modsIsWordModifier THEN MoveTo(E, WordRight(E.w, E.b), FALSE)
    ELSE IF c.modsIsWordModifierShift THEN MoveTo(E, WordRight(E.w, E.b), TRUE)
    ELSE E

\* delete the range between the caret and index to
DeleteRange(E, to) ==
    LET at == Clamp(E.b, Len(E.w))
        lo == Min(at, to)
        hi == Max(at, to)
    IN  updateEditingState(
            [E EXCEPT !.w = SubSeq(E.w, 1, lo) \o SubSeq(E.w, hi + 1, Len(E.w)),
                      !.b = lo, !.e = lo])

Delete(E, c) ==
    IF ~(NoModifier(c) \/ c.modsIsWordModifier) THEN E
    ELSE IF isSelected(E) THEN RemoveSelectedText(E)
    ELSE IF c.modsIsWordModifier THEN DeleteRange(E, WordRight(E.w, E.b))
    ELSE DeleteRange(E, Clamp(E.b + 1, Len(E.w)))

Backspace(E, c) ==
    IF ~(NoModifier(c) \/ c.modsIsWordModifier) THEN E
    ELSE IF isSelected(E) THEN RemoveSelectedText(E)
    ELSE IF c.modsIsWordModifier THEN DeleteRange(E, WordLeft(E.w, E.b))
    ELSE DeleteRange(E, Clamp(E.b - 1, Len(E.w)))

SelectAll(E) == updateEditingState([E EXCEPT !.b = 0, !.e = Len(E.w)])

(***************************************************************************)
(* JSON payloads of the inbound method calls, and json.Unmarshal on them.  *)
(* A payload is a JSON document [t, ...] or bytes that are not JSON        *)
(* (t = "malformed").                                                      *)
(***************************************************************************)
JNumber(n) == [t |-> "number", n |-> n]
JString == [t |-> "string"]
JObject == [t |-> "object"]
JList(elems) == [t |-> "list", elems |-> elems]
JNull == [t |-> "null"]
JMalformed == [t |-> "malformed"]

SetClientPayloads ==
    {JMalformed, JNull, JObject, JNumber(1), JList(<<>>), JList(<<JString>>)}
    \cup {JList(<<JNumber(id), JObject>>) : id \in ClientIDs}

\* json.Unmarshal(arguments, &args) with args []interface{}: null leaves args
\* nil without an error, a list fills it, anything else is an error
UnmarshalList(payload) ==
    IF payload.t = "list" THEN [err |-> FALSE, args |-> payload.elems]
    ELSE IF payload.t = "null" THEN [err |-> FALSE, args |-> <<>>]
    ELSE [err |-> TRUE, args |-> <<>>]

JEditingState(text, base, extent, typed) ==
    [t |-> "object", text |-> text, selectionBase |-> base,
     selectionExtent |-> extent, typed |-> typed]

\* typed = FALSE: a field holds a JSON value of the wrong type for the struct
EditingStatePayloads ==
    {JMalformed, JNull, JList(<<>>), JEditingState(<<"a">>, 0, 1, FALSE)}
    \cup {JEditingState(w, b, e, TRUE) : w \in Texts, b \in SelValues, e \in SelValues}

\* json.Unmarshal(arguments, &editingState) with editingState argsEditingState:
\* null leaves the zero value without an error
UnmarshalEditingState(payload) ==
    IF payload.t = "object" /\ payload.typed
    THEN [err |-> FALSE, Text |-> payload.text,
          SelectionBase |-> payload.selectionBase,
          SelectionExtent |-> payload.selectionExtent]
    ELSE IF payload.t = "null"
    THEN [err |-> FALSE, Text |-> <<>>, SelectionBase |-> 0, SelectionExtent |-> 0]
    ELSE [err |-> TRUE, Text |-> <<>>, SelectionBase |-> 0, SelectionExtent |-> 0]

\* the record of a handler invocation: which handler ran, on what kind of
\* payload or character, and for the key callback on which key, action and
\* modifiers
MethodCall(op, arg) == [op |-> op, arg |-> arg, key |-> 0, action |-> 0, mods |-> 0]

(***************************************************************************)
(* The method handlers.                                                    *)
(***************************************************************************)
Quiet ==
    /\ keyEvents' = <<>>
    /\ popRoutes' = 0
    /\ textCalls' = <<>>
    /\ diag' = "none"

\* args[0].(float64) panics on an empty list and on a first element that is
\* no number; the panic unwinds out of the handler before the assignment
handleSetClient(arguments) ==
    LET u == UnmarshalList(arguments)
    IN  /\ call' = MethodCall("setClient", arguments.t)
        /\ IF u.err
           THEN reply' = "decodeError" /\ UNCHANGED clientID
           ELSE IF Len(u.args) = 0 \/ u.args[1].t # "number"
           THEN reply' = "panic" /\ UNCHANGED clientID
           ELSE reply' = "ok" /\ clientID' = u.args[1].n
        /\ Quiet
        /\ UNCHANGED <<goos, word, selectionBase, selectionExtent, clipboard, codecVars>>

\* forgetting the focus and the buffered text with it
handleClearClientResets ==
    /\ call' = MethodCall("clearClient", "")
    /\ clientID' = 0
    /\ word' = <<>>
    /\ selectionBase' = 0
    /\ selectionExtent' = 0
    /\ reply' = "ok"
    /\ Quiet
    /\ UNCHANGED <<goos, clipboard, codecVars>>

handleClearClient ==
    /\ call' = MethodCall("clearClient", "")
    /\ clientID' = 0
    /\ reply' = "ok"
    /\ Quiet
    /\ UNCHANGED <<goos, word, selectionBase, selectionExtent, clipboard, codecVars>>

\* without the check for a focused client
handleSetEditingStateUnchecked(arguments) ==
    LET editingState == UnmarshalEditingState(arguments)
    IN  /\ call' = MethodCall("setEditingState", arguments.t)
        /\ IF editingState.err
           THEN reply' = "decodeError" /\ UNCHANGED <<word, selectionBase, selectionExtent>>
           ELSE /\ word' = editingState.Text
                /\ selectionBase' = editingState.SelectionBase
                /\ selectionExtent' = editingState.SelectionExtent
                /\ reply' = "ok"
        /\ Quiet
        /\ UNCHANGED <<goos, clientID, clipboard, codecVars>>

\* with the extent taken from the base
handleSetEditingStateCollapsed(arguments) ==
    LET editingState == UnmarshalEditingState(arguments)
    IN  /\ call' = MethodCall("setEditingState", arguments.t)
        /\ IF clientID = 0
           THEN reply' = "noClient" /\ UNCHANGED <<word, selectionBase, selectionExtent>>
           ELSE IF editingState.err
           THEN reply' = "decodeError" /\ UNCHANGED <<word, selectionBase, selectionExtent>>
           ELSE /\ word' = editingState.Text
                /\ selectionBase' = editingState.SelectionBase
                /\ selectionExtent' = editingState.SelectionBase
                /\ reply' = "ok"
        /\ Quiet
        /\ UNCHANGED <<goos, clientID, clipboard, codecVars>>

\* decoding straight into the store: the text is assigned before the failure
\* on a later field is known
handleSetEditingStatePartial(arguments) ==
    LET editingState == UnmarshalEditingState(arguments)
    IN  /\ call' = MethodCall("setEditingState", arguments.t)
        /\ IF clientID = 0
           THEN reply' = "noClient" /\ UNCHANGED <<word, selectionBase, selectionExtent>>
           ELSE IF editingState.err
           THEN /\ reply' = "decodeError"
                /\ word' = (IF arguments.t = "object" THEN arguments.text ELSE word)
                /\ UNCHANGED <<selectionBase, selectionExtent>>
           ELSE /\ word' = editingState.Text
                /\ selectionBase' = editingState.SelectionBase
                /\ selectionExtent' = editingState.SelectionExtent
                /\ reply' = "ok"
        /\ Quiet
        /\ UNCHANGED <<goos, clientID, clipboard, codecVars>>

handleSetEditingState(arguments) ==
    LET editingState == UnmarshalEditingState(arguments)
    IN  /\ call' = MethodCall("setEditingState", arguments.t)
        /\ IF clientID = 0
           THEN reply' = "noClient" /\ UNCHANGED <<word, selectionBase, selectionExtent>>
           ELSE IF editingState.err
           THEN reply' = "decodeError" /\ UNCHANGED <<word, selectionBase, selectionExtent>>
           ELSE /\ word' = editingState.Text
                /\ selectionBase' = editingState.SelectionBase
                /\ selectionExtent' = editingState.SelectionExtent
                /\ reply' = "ok"
        /\ Quiet
        /\ UNCHANGED <<goos, clientID, clipboard, codecVars>>

(***************************************************************************)
(* The window callbacks.                                                   *)
(***************************************************************************)
\* what a callback leaves behind: the editing value, the clipboard, and whether
\* the callback returned before the key event part
Outcome(E, clip, abort, note) == [E |-> E, clip |-> clip, abort |-> abort, diag |-> note]

Install(E) ==
    /\ Len(E.w) <= MaxLen
    /\ word' = E.w
    /\ selectionBase' = E.b
    /\ selectionExtent' = E.e
    /\ textCalls' = E.calls

glfwCharCallback(char) ==
    /\ call' = MethodCall("char", char)
    /\ IF clientID = 0 THEN Install(Editing) ELSE Install(addChar(Editing, <<char>>))
    /\ reply' = "none"
    /\ keyEvents' = <<>>
    /\ popRoutes' = 0
    /\ diag' = "none"
    /\ UNCHANGED <<goos, clientID, clipboard, codecVars>>

\* the copy case without the test of the modifier
DispatchCopyAnyModifier(key, mods, clipErr) ==
    LET E == Editing
        c == Classify(mods)
        same == Outcome(E, clipboard, FALSE, "none")
    IN  IF key = KeyEnter
        THEN IF mods = modifierKey
             THEN Outcome(performAction(E, "done"), clipboard, FALSE, "none")
             ELSE Outcome(performAction(addChar(E, <<Newline>>), "newline"),
                          clipboard, FALSE, "none")
        ELSE IF key = KeyHome THEN Outcome(MoveCursorHome(E, c), clipboard, FALSE, "none")
        ELSE IF key = KeyEnd THEN Outcome(MoveCursorEnd(E, c), clipboard, FALSE, "none")
        ELSE IF key = KeyLeft THEN Outcome(MoveCursorLeft(E, c), clipboard, FALSE, "none")
        ELSE IF key = KeyRight THEN Outcome(MoveCursorRight(E, c), clipboard, FALSE, "none")
        ELSE IF key = KeyDelete THEN Outcome(Delete(E, c), clipboard, FALSE, "none")
        ELSE IF key = KeyBackspace THEN Outcome(Backspace(E, c), clipboard, FALSE, "none")
        ELSE IF key = keyboardLayout.SelectAll
        THEN IF mods = modifierKey
             THEN Outcome(SelectAll(E), clipboard, FALSE, "none")
             ELSE same
        ELSE IF key = keyboardLayout.Copy
        THEN IF isSelected(E)
             THEN Outcome(E, GetSelectedText(E)[3], FALSE, "none")
             ELSE same
        ELSE IF key = keyboardLayout.Cut
        THEN IF mods = modifierKey /\ isSelected(E)
             THEN Outcome(RemoveSelectedText(E), GetSelectedText(E)[3], FALSE, "none")
             ELSE same
        ELSE IF key = keyboardLayout.Paste
        THEN IF mods = modifierKey
             THEN IF clipErr
                  THEN Outcome(E, clipboard, TRUE, "clipboard")
                  ELSE Outcome(addChar(E, clipboard), clipboard, FALSE, "none")
             ELSE same
        ELSE same

\* glfwKeyCallback, second switch: the editing dispatch of a press or repeat
Dispatch(key, mods, clipErr) ==
    LET E == Editing
        c == Classify(mods)
        same == Outcome(E, clipboard, FALSE, "none")
    IN  IF key = KeyEnter
        THEN IF mods = modifierKey
             THEN Outcome(performAction(E, "done"), clipboard, FALSE, "none")
             ELSE Outcome(performAction(addChar(E, <<Newline>>), "newline"),
                          clipboard, FALSE, "none")
        ELSE IF key = KeyHome THEN Outcome(MoveCursorHome(E, c), clipboard, FALSE, "none")
        ELSE IF key = KeyEnd THEN Outcome(MoveCursorEnd(E, c), clipboard, FALSE, "none")
        ELSE IF key = KeyLeft THEN Outcome(MoveCursorLeft(E, c), clipboard, FALSE, "none")
        ELSE IF key = KeyRight THEN Outcome(MoveCursorRight(E, c), clipboard, FALSE, "none")
        ELSE IF key = KeyDelete THEN Outcome(Delete(E, c), clipboard, FALSE, "none")
        ELSE IF key = KeyBackspace THEN Outcome(Backspace(E, c), clipboard, FALSE, "none")
        ELSE IF key = keyboardLayout.SelectAll
        THEN IF mods = modifierKey
             THEN Outcome(SelectAll(E), clipboard, FALSE, "none")
             ELSE same
        ELSE IF key = keyboardLayout.Copy
        THEN IF mods = modifierKey /\ isSelected(E)
             THEN Outcome(E, GetSelectedText(E)[3], FALSE, "none")
             ELSE same
        ELSE IF key = keyboardLayout.Cut
        THEN IF mods = modifierKey /\ isSelected(E)
             THEN Outcome(RemoveSelectedText(E), GetSelectedText(E)[3], FALSE, "none")
             ELSE same
        ELSE IF key = keyboardLayout.Paste
        THEN IF mods = modifierKey
             THEN IF clipErr
                  THEN Outcome(E, clipboard, TRUE, "clipboard")
                  ELSE Outcome(addChar(E, clipboard), clipboard, FALSE, "none")
             ELSE same
        ELSE same

\* the control bit one place too low
MetaStateCtrlBit11(mods) ==
    BitOr(BitOr(BitOr(conditionalInt(BitAnd(mods, ModShift) # 0, androidMetaStateShift),
                      conditionalInt(BitAnd(mods, ModAlt) # 0, androidMetaStateAlt)),
                conditionalInt(BitAnd(mods, ModControl) # 0, androidMetaStateCtrl \div 2)),
          conditionalInt(BitAnd(mods, ModSuper) # 0, androidMetaStateMeta))

MetaState(mods) ==
    BitOr(BitOr(BitOr(conditionalInt(BitAnd(mods, ModShift) # 0, androidMetaStateShift),
                      conditionalInt(BitAnd(mods, ModAlt) # 0, androidMetaStateAlt)),
                conditionalInt(BitAnd(mods, ModControl) # 0, androidMetaStateCtrl)),
          conditionalInt(BitAnd(mods, ModSuper) # 0, androidMetaStateMeta))

KeyEvent(key, typeKey, mods) ==
    [keyCode |-> key, keymap |-> "android", type |-> typeKey, metaState |-> MetaState(mods)]

\* does GetClipboardString run for this event?
ReadsClipboard(key, action, mods) ==
    /\ ~(key = KeyEscape /\ action = Press)
    /\ action \in {Repeat, Press}
    /\ clientID # 0
    /\ key = keyboardLayout.Paste
    /\ mods = modifierKey

\* the Escape branch without its return: the press is forwarded as well
EscapeForwards(key, mods, popErr) ==
    /\ popRoutes' = 1
    /\ diag' = IF popErr THEN "popRoute" ELSE "none"
    /\ keyEvents' = <<KeyEvent(key, "keydown", mods)>>
    /\ textCalls' = <<>>
    /\ UNCHANGED <<word, selectionBase, selectionExtent, clipboard>>

\* the Escape branch: popRoute on the navigation channel, then return
EscapePressed(key, mods, popErr) ==
    /\ popRoutes' = 1
    /\ diag' = IF popErr THEN "popRoute" ELSE "none"
    /\ keyEvents' = <<>>
    /\ textCalls' = <<>>
    /\ UNCHANGED <<word, selectionBase, selectionExtent, clipboard>>

\* the early return taken on a press only
ReturnsUnfocusedOnPress(action) == action = Press /\ clientID = 0

\* a press or repeat returns at once when no client is focused

ReturnsUnfocused(action) == action \in {Repeat, Press} /\ clientID = 0

\* the editing switch entered on a press only
glfwKeyCallbackPressOnly(key, action, mods, clipErr, popErr) ==
    /\ call' = [op |-> "key", arg |-> "", key |-> key, action |-> action, mods |-> mods]
    /\ reply' = "none"
    /\ IF key = KeyEscape /\ action = Press
       THEN EscapePressed(key, mods, popErr)
       ELSE /\ popRoutes' = 0
            /\ IF ReturnsUnfocused(action)
               THEN /\ keyEvents' = <<>>
                    /\ textCalls' = <<>>
                    /\ diag' = "none"
                    /\ UNCHANGED <<word, selectionBase, selectionExtent, clipboard>>
               ELSE LET d == IF action = Press
                             THEN Dispatch(key, mods, clipErr)
                             ELSE Outcome(Editing, clipboard, FALSE, "none")
                    IN  /\ Install(d.E)
                        /\ clipboard' = d.clip
                        /\ IF d.abort
                           THEN keyEvents' = <<>> /\ diag' = d.diag
                           ELSE IF action = Release
                           THEN keyEvents' = <<KeyEvent(key, "keyup", mods)>> /\ diag' = "none"
                           ELSE IF action = Press
                           THEN keyEvents' = <<KeyEvent(key, "keydown", mods)>> /\ diag' = "none"
                           ELSE keyEvents' = <<>> /\ diag' = "action"
    /\ UNCHANGED <<goos, clientID, codecVars>>

glfwKeyCallback(key, action, mods, clipErr, popErr) ==
    /\ call' = [op |-> "key", arg |-> "", key |-> key, action |-> action, mods |-> mods]
    /\ reply' = "none"
    /\ IF key = KeyEscape /\ action = Press
       THEN EscapePressed(key, mods, popErr)
       ELSE /\ popRoutes' = 0
            /\ IF ReturnsUnfocused(action)
               THEN /\ keyEvents' = <<>>
                    /\ textCalls' = <<>>
                    /\ diag' = "none"
                    /\ UNCHANGED <<word, selectionBase, selectionExtent, clipboard>>
               ELSE LET d == IF action \in {Repeat, Press}
                             THEN Dispatch(key, mods, clipErr)
                             ELSE Outcome(Editing, clipboard, FALSE, "none")
                    IN  /\ Install(d.E)
                        /\ clipboard' = d.clip
                        /\ IF d.abort
                           THEN keyEvents' = <<>> /\ diag' = d.diag
                           ELSE IF action = Release
                           THEN keyEvents' = <<KeyEvent(key, "keyup", mods)>> /\ diag' = "none"
                           ELSE IF action = Press
                           THEN keyEvents' = <<KeyEvent(key, "keydown", mods)>> /\ diag' = "none"
                           ELSE keyEvents' = <<>> /\ diag' = "action"
    /\ UNCHANGED <<goos, clientID, codecVars>>

(***************************************************************************)
(* JSONMessageCodec.  A message is a Go value [t, v]; bytes are sequences  *)
(* of byte values.  Marshal is encoding/json's Marshal on these values:    *)
(* a []byte is written as a base64 string, a list as a JSON array.         *)
(***************************************************************************)
GoNil == [t |-> "nil", v |-> 0]
GoBool(b) == [t |-> "bool", v |-> b]
GoNumber(n) == [t |-> "number", v |-> n]
GoString(s) == [t |-> "string", v |-> s]
GoBytes(b) == [t |-> "bytes", v |-> b]
GoList(elems) == [t |-> "list", v |-> elems]

RECURSIVE Digits(_)
Digits(n) == IF n < 10 THEN <<48 + n>> ELSE Digits(n \div 10) \o <<48 + (n % 10)>>

\* the base64 alphabet: A-Z, a-z, 0-9, +, /
B64Char(i) ==
    IF i < 26 THEN 65 + i
    ELSE IF i < 52 THEN 97 + (i - 26)
    ELSE IF i < 62 THEN 48 + (i - 52)
    ELSE IF i = 62 THEN 43 ELSE 47

RECURSIVE Base64(_)
Base64(b) ==
    IF Len(b) = 0 THEN <<>>
    ELSE IF Len(b) = 1
    THEN <<B64Char(b[1] \div 4), B64Char((b[1] % 4) * 16), 61, 61>>
    ELSE IF Len(b) = 2
    THEN <<B64Char(b[1] \div 4), B64Char((b[1] % 4) * 16 + b[2] \div 16),
           B64Char((b[2] % 16) * 4), 61>>
    ELSE <<B64Char(b[1] \div 4), B64Char((b[1] % 4) * 16 + b[2] \div 16),
           B64Char((b[2] % 16) * 4 + b[3] \div 64), B64Char(b[3] % 64)>>
         \o Base64(SubSeq(b, 4, Len(b)))

RECURSIVE Marshal(_)
RECURSIVE MarshalElems(_)
MarshalElems(elems) ==
    IF Len(elems) = 0 THEN <<>>
    ELSE IF Len(elems) = 1 THEN Marshal(elems[1])
    ELSE Marshal(elems[1]) \o <<44>> \o MarshalElems(Tail(elems))

Marshal(value) ==
    IF value.t = "nil" THEN <<110, 117, 108, 108>>
    ELSE IF value.t = "bool"
    THEN IF value.v THEN <<116, 114, 117, 101>> ELSE <<102, 97, 108, 115, 101>>
    ELSE IF value.t = "number" THEN Digits(value.v)
    ELSE IF value.t = "string" THEN <<34>> \o value.v \o <<34>>
    ELSE IF value.t = "bytes" THEN <<34>> \o Base64(value.v) \o <<34>>
    ELSE <<91>> \o MarshalElems(value.v) \o <<93>>

\* json.Marshal(&message)
EncodeMessage(message) == [binaryMessage |-> Marshal(message), err |-> FALSE]

\* json.Marshal([]interface{}{binaryMessage}): the bytes are marshalled once
\* more, as the one element of a list, and the result returned as the message
DecodeMessage(binaryMessage) ==
    [message |-> GoBytes(Marshal(GoList(<<GoBytes(binaryMessage)>>))), err |-> FALSE]

(***************************************************************************)
(* The plugin as a state machine.                                          *)
(***************************************************************************)
Platforms == {"darwin", "default"}

Init ==
    /\ goos \in Platforms
    /\ clientID = 0
    /\ word = <<>>
    /\ selectionBase = 0
    /\ selectionExtent = 0
    /\ clipboard = <<>>
    /\ call = MethodCall("init", "")
    /\ reply = "none"
    /\ keyEvents = <<>>
    /\ popRoutes = 0
    /\ textCalls = <<>>
    /\ diag = "none"
    /\ cpc = "idle"
    /\ msg = GoNil
    /\ bin = <<>>
    /\ dec = [message |-> GoNil, err |-> FALSE]
    /\ pressed = {}
    /\ engineDown = {}

\* the handlers neither see the keyboard's state nor the engine's bookkeeping
SetClient ==
    /\ \E arguments \in SetClientPayloads : handleSetClient(arguments)
    /\ UNCHANGED keyboard
ClearClient ==
    /\ handleClearClient
    /\ UNCHANGED keyboard
SetEditingState ==
    /\ \E arguments \in EditingStatePayloads : handleSetEditingState(arguments)
    /\ UNCHANGED keyboard
CharCallback ==
    /\ \E char \in Chars : glfwCharCallback(char)
    /\ UNCHANGED keyboard
\* one callback invocation, with the failures the collaborators may report
KeyInvocation(key, action, mods) ==
    \E clipErr \in (IF ReadsClipboard(key, action, mods) THEN BOOLEAN ELSE {FALSE}),
       popErr \in (IF key = KeyEscape /\ action = Press THEN BOOLEAN ELSE {FALSE}) :
          glfwKeyCallback(key, action, mods, clipErr, popErr)
KeyCallback(keys, actions, modSets) ==
    /\ \E key \in keys, action \in actions, mods \in modSets :
           KeyInvocation(key, action, mods)
    /\ UNCHANGED keyboard

(***************************************************************************)
(* Spec: the engine's side.  The three method handlers over every payload, *)
(* with typed characters and Backspace presses from the window.            *)
(***************************************************************************)
Next ==
    \/ SetClient
    \/ ClearClient
    \/ SetEditingState
    \/ CharCallback
    \/ KeyCallback({KeyBackspace}, {Press}, {0})

Spec == Init /\ [][Next]_vars

(***************************************************************************)
(* SpecKeys: the keyboard's side.  Every key and every action under the    *)
(* modifier sets that are a platform's primary modifier, while the engine  *)
(* moves the focus.                                                        *)
(***************************************************************************)
KeyMods == {0, ModControl, ModSuper}

NextKeys ==
    \/ SetClient
    \/ ClearClient
    \/ KeyCallback(Keys, Actions, KeyMods)

SpecKeys == Init /\ [][NextKeys]_vars

(***************************************************************************)
(* SpecMods: every modifier set, on the keys the callback tells apart      *)
(* before it forwards an event.                                            *)
(***************************************************************************)
ModKeys == {KeyEscape, KeyEnter, KeyV, KeyB}

NextMods ==
    \/ SetClient
    \/ ClearClient
    \/ KeyCallback(ModKeys, Actions, AllMods)

SpecMods == Init /\ [][NextMods]_vars

(***************************************************************************)
(* SpecIdle: the window's events while no client is focused.  Every key,   *)
(* action and modifier set reaches the key callback, but only in states    *)
(* with clientID = 0; the text is typed while a client is focused.         *)
(***************************************************************************)
KeyCallbackUnfocused ==
    /\ clientID = 0
    /\ KeyCallback(Keys, Actions, AllMods)

NextIdle ==
    \/ SetClient
    \/ ClearClient
    \/ CharCallback
    \/ KeyCallbackUnfocused

SpecIdle == Init /\ [][NextIdle]_vars

(***************************************************************************)
(* SpecAtomic: the engine alone, moving the focus and replacing the        *)
(* editing state.  The payloads are the ones that do not decode and, for   *)
(* every text, a caret at the start, the selection from 0 to MaxLen forward *)
(* and backward, and a selection outside every text.                       *)
(***************************************************************************)
AtomicPayloads ==
    {JMalformed, JNull, JList(<<>>), JEditingState(<<"a">>, 0, 1, FALSE)}
    \cup {JEditingState(w, s[1], s[2], TRUE) :
              w \in Texts,
              s \in {<<0, 0>>, <<0, MaxLen>>, <<MaxLen, 0>>, <<MaxLen + 1, 0 - 1>>}}

SetEditingStateAtomic ==
    /\ \E arguments \in AtomicPayloads : handleSetEditingState(arguments)
    /\ UNCHANGED keyboard

NextAtomic ==
    \/ SetClient
    \/ ClearClient
    \/ SetEditingStateAtomic

SpecAtomic == Init /\ [][NextAtomic]_vars

(***************************************************************************)
(* SpecEdit: editing from the keyboard.  Enter makes text, select-all and  *)
(* Left make and drop a selection, copy, cut and paste move text through   *)
(* the clipboard; each key is pressed, repeated and released under no      *)
(* modifier and under either platform's primary modifier.                  *)
(***************************************************************************)
EditKeys == {KeyEscape, KeyEnter, KeyLeft, KeyA, KeyC, KeyX, KeyV}
EditActions == {Press, Repeat, Release}

NextEdit ==
    \/ SetClient
    \/ ClearClient
    \/ KeyCallback(EditKeys, EditActions, KeyMods)

SpecEdit == Init /\ [][NextEdit]_vars

(***************************************************************************)
(* SpecRepeat: keys held down.  Enter, Backspace, select-all and paste     *)
(* edit, Escape pops the route; each is pressed, repeated and released     *)
(* under no modifier and under control, the primary modifier of one        *)
(* platform and no shortcut's modifier on the other.                       *)
(***************************************************************************)
RepeatKeys == {KeyEscape, KeyEnter, KeyBackspace, KeyA, KeyV}
RepeatMods == {0, ModControl}

NextRepeat ==
    \/ SetClient
    \/ ClearClient
    \/ KeyCallback(RepeatKeys, EditActions, RepeatMods)

SpecRepeat == Init /\ [][NextRepeat]_vars

(***************************************************************************)
(* SpecPairs: the keyboard as the window reports it.  A key is pressed     *)
(* while it is up, repeats and is released while it is down; the engine    *)
(* keeps, from the events it receives on flutter/keyevent, the key codes   *)
(* that are down.                                                          *)
(***************************************************************************)
PairKeys == {KeyEscape, KeyB, KeyV}
PairMods == {0, ModControl}

\* key codes of the events of one type among the events sent
Codes(events, typeKey) == {events[i].keyCode : i \in {j \in 1..Len(events) : events[j].type = typeKey}}

KeyTransition ==
    \E key \in PairKeys, action \in Actions, mods \in PairMods :
        /\ action = Press => key \notin pressed
        /\ action \in {Repeat, Release} => key \in pressed
        /\ KeyInvocation(key, action, mods)
        /\ pressed' = (IF action = Press THEN pressed \cup {key}
                        ELSE IF action = Release THEN pressed \ {key}
                        ELSE pressed)
        /\ engineDown' = (engineDown \cup Codes(keyEvents', "keydown")) \ Codes(keyEvents', "keyup")

NextPairs ==
    \/ SetClient
    \/ ClearClient
    \/ KeyTransition

SpecPairs == Init /\ [][NextPairs]_vars

(***************************************************************************)
(* SpecCodec: one message through EncodeMessage and then DecodeMessage, or *)
(* one inbound payload, well-formed or not, through DecodeMessage.         *)
(***************************************************************************)
\* longest string or byte slice in a message
MaxStr == 2
\* largest number in a message
MaxNum == 2

StringBytes == {97, 98}
SliceBytes == {0, 255}
Scalars ==
    {GoNil, GoBool(TRUE), GoBool(FALSE)}
    \cup {GoNumber(n) : n \in 0..MaxNum}
    \cup {GoString(x) : x \in SeqsUpTo(StringBytes, MaxStr)}
    \cup {GoBytes(x) : x \in SeqsUpTo(SliceBytes, MaxStr)}
Messages == Scalars \cup {GoList(<<>>)} \cup {GoList(<<x>>) : x \in Scalars}

InitCodec ==
    /\ goos \in Platforms
    /\ clientID = 0
    /\ word = <<>>
    /\ selectionBase = 0
    /\ selectionExtent = 0
    /\ clipboard = <<>>
    /\ call = MethodCall("init", "")
    /\ reply = "none"
    /\ keyEvents = <<>>
    /\ popRoutes = 0
    /\ textCalls = <<>>
    /\ diag = "none"
    /\ cpc = "start"
    /\ msg \in Messages
    /\ bin = <<>>
    /\ dec = [message |-> GoNil, err |-> FALSE]
    /\ pressed = {}
    /\ engineDown = {}

Encode ==
    /\ cpc = "start"
    /\ bin' = EncodeMessage(msg).binaryMessage
    /\ cpc' = "encoded"
    /\ UNCHANGED <<goos, store, clipboard, outputs, msg, dec, keyboard>>

Decode ==
    /\ cpc = "encoded"
    /\ dec' = DecodeMessage(bin)
    /\ cpc' = "decoded"
    /\ UNCHANGED <<goos, store, clipboard, outputs, msg, bin, keyboard>>

\* bytes that are no JSON document: nothing, an unclosed list, a stray closing
\* bracket, an unclosed string, an unclosed object, a cut-off literal, a list
\* of a comma
MalformedPayloads ==
    {<<>>, <<91>>, <<93>>, <<34, 97>>, <<123>>, <<110, 117>>, <<91, 44, 93>>}

\* DecodeMessage on a payload as the channel hands it over
DecodeInbound ==
    /\ cpc = "start"
    /\ \E binaryMessage \in MalformedPayloads \cup {EncodeMessage(msg).binaryMessage} :
           /\ bin' = binaryMessage
           /\ dec' = DecodeMessage(binaryMessage)
    /\ cpc' = "inbound"
    /\ UNCHANGED <<goos, store, clipboard, outputs, msg, keyboard>>

NextCodec ==
    \/ Encode
    \/ Decode
    \/ DecodeInbound

SpecCodec == InitCodec /\ [][NextCodec]_vars

(***************************************************************************)
(* The properties.                                                         *)
(***************************************************************************)
InRange(i) == 0 <= i /\ i <= Len(word)
IsKeyCall(key, action) == call.op = "key" /\ call.key = key /\ call.action = action
ShiftHeld(mods) == mods % 2 = 1
ControlHeld(mods) == (mods \div 2) % 2 = 1
AltHeld(mods) == (mods \div 4) % 2 = 1
SuperHeld(mods) == (mods \div 8) % 2 = 1

\* C1: in every reachable state the selection base and the selection extent
\* lie in [0, length of the text]
C1_SelectionInRange == InRange(selectionBase) /\ InRange(selectionExtent)

\* C2: after a press of a key other than Escape exactly one event, a keydown
\* with that key's code, has been sent on flutter/keyevent, and after a
\* release exactly one keyup with that key's code, whatever the focus
C2_PressAndReleaseForwarded ==
    (call.op = "key" /\ call.key # KeyEscape /\ call.action \in {Press, Release})
        => /\ Len(keyEvents) = 1
           /\ keyEvents[1].keyCode = call.key
           /\ keyEvents[1].type = (IF call.action = Press THEN "keydown" ELSE "keyup")

\* C3: DecodeMessage(EncodeMessage(v)) returns v, without an error
C3_RoundTrip ==
    cpc = "decoded" => (~dec.err /\ dec.message.t = msg.t /\ dec.message.v = msg.v)

\* C4: with no client focused, setEditingState with any arguments replies
\* with the no-client error and leaves the client, the text and the selection
\* as they were
C4_NoClientNoChange ==
    [][(clientID = 0 /\ call'.op = "setEditingState")
           => (reply' = "noClient" /\ UNCHANGED store)]_vars

C4_Witness ==
    /\ call.op = "setEditingState"
    /\ call.arg = "object"
    /\ reply = "noClient"
    /\ clientID = 0
    /\ word = <<"a">>
    /\ selectionBase = 1

\* C5: setClient(id) with id # 0 stores id and succeeds; setEditingState with
\* a client focused and the selection inside the new text succeeds and stores
\* exactly the given text, base and extent, keeping the client
C5_SetClientThenState ==
    [][/\ call'.op = "setClient"
           => \A id \in ClientIDs \ {0} :
                  handleSetClient(JList(<<JNumber(id), JObject>>))
                      => (clientID' = id /\ reply' = "ok")
       /\ (call'.op = "setEditingState" /\ clientID # 0)
           => \A w \in Texts : \A b \in 0..Len(w) : \A e \in 0..Len(w) :
                  handleSetEditingState(JEditingState(w, b, e, TRUE))
                      => /\ word' = w
                         /\ selectionBase' = b
                         /\ selectionExtent' = e
                         /\ clientID' = clientID
                         /\ reply' = "ok"]_vars

C5_Witness ==
    /\ call.op = "setEditingState"
    /\ reply = "ok"
    /\ clientID = 1
    /\ word = <<"a", "a">>
    /\ selectionBase = 0
    /\ selectionExtent = 2

\* C6: while no client is focused, a character event and a key press or
\* repeat of any key under any modifiers change neither client, text,
\* selection nor clipboard, and make no call on flutter/textinput
C6_UnfocusedInputIgnored ==
    [][(/\ clientID = 0
        /\ \/ call'.op = "char"
           \/ call'.op = "key" /\ call'.action \in {Press, Repeat})
           => (UNCHANGED <<store, clipboard>> /\ textCalls' = <<>>)]_vars

C6_Witness ==
    /\ IsKeyCall(KeyEnter, Press)
    /\ clientID = 0
    /\ word = <<"a">>
    /\ textCalls = <<>>

\* C7: a press of Escape, focused or not and under any modifiers, makes one
\* popRoute call and nothing else: no change of client, text, selection or
\* clipboard, no call on flutter/textinput, no event on flutter/keyevent,
\* whether popRoute fails or not
C7_EscapeOnlyPops ==
    [][(call'.op = "key" /\ call'.key = KeyEscape /\ call'.action = Press)
           => /\ popRoutes' = 1
              /\ keyEvents' = <<>>
              /\ textCalls' = <<>>
              /\ UNCHANGED <<store, clipboard>>]_vars

C7_Witness ==
    /\ IsKeyCall(KeyEscape, Press)
    /\ call.mods = ModControl
    /\ clientID # 0
    /\ word # <<>>
    /\ diag = "popRoute"
    /\ popRoutes = 1

\* C8: the metaState of every forwarded event is the sum of 1 if shift is
\* held, 2 if alt is held, 4096 if control is held and 65536 if super is
\* held, on either platform
C8_MetaStateBits ==
    \A i \in 1..Len(keyEvents) :
        keyEvents[i].metaState =
            (IF ShiftHeld(call.mods) THEN 1 ELSE 0)
            + (IF AltHeld(call.mods) THEN 2 ELSE 0)
            + (IF ControlHeld(call.mods) THEN 4096 ELSE 0)
            + (IF SuperHeld(call.mods) THEN 65536 ELSE 0)

C8_Witness ==
    /\ goos = "darwin"
    /\ IsKeyCall(KeyB, Press)
    /\ call.mods = ModShift + ModControl + ModAlt + ModSuper
    /\ Len(keyEvents) = 1
    /\ keyEvents[1].metaState = 69635

\* C9: a paste shortcut press with a client focused whose clipboard read
\* fails leaves text and selection unchanged and still sends the keydown
\* event of that press
C9_PasteFailureStillForwards ==
    [][\A mods \in AllMods :
           (/\ clientID # 0
            /\ mods = modifierKey
            /\ glfwKeyCallback(keyboardLayout.Paste, Press, mods, TRUE, FALSE))
               => /\ UNCHANGED <<word, selectionBase, selectionExtent>>
                  /\ Len(keyEvents') = 1
                  /\ keyEvents'[1].type = "keydown"
                  /\ keyEvents'[1].keyCode = keyboardLayout.Paste]_vars

\* C10: setClient with a payload that is no JSON list, an empty list, or a
\* list whose first element is no number returns an error reply (it does not
\* panic) and leaves the client as it was
MalformedSetClient(payload) ==
    \/ payload.t # "list"
    \/ Len(payload.elems) = 0
    \/ payload.elems[1].t # "number"

C10_MalformedSetClientReplies ==
    [][\A arguments \in SetClientPayloads :
           (MalformedSetClient(arguments) /\ handleSetClient(arguments))
               => (reply' = "decodeError" /\ clientID' = clientID)]_vars

\* C11: setClient changes nothing but the focused client and clearClient
\* nothing but resetting it to 0: text, selection base and selection extent
\* (and the clipboard) stay as they were, so the text given to one client is
\* still in the store when the next client attaches
C11_FocusKeepsText ==
    [][/\ call'.op \in {"setClient", "clearClient"}
           => UNCHANGED <<word, selectionBase, selectionExtent, clipboard>>
       /\ call'.op = "clearClient" => clientID' = 0]_vars

\* a client attaches and finds a text and a selection that only an earlier
\* setEditingState can have put there
C11_Witness ==
    /\ call.op = "setClient"
    /\ reply = "ok"
    /\ clientID = 1
    /\ word = <<"a", "a">>
    /\ selectionBase = 2
    /\ selectionExtent = 0

\* C12: DecodeMessage on bytes that are no encoding of any value returns an
\* error and no value (the error is what carries the raw payload)
C12_MalformedDecodeFails ==
    (cpc = "inbound" /\ bin \in MalformedPayloads) => (dec.err /\ dec.message = GoNil)

\* C13: a key event whose action is none of press, release and repeat sends
\* nothing on flutter/keyevent and changes neither client, text, selection nor
\* clipboard; a press, a release and a repeat are recognized, so none of them
\* ends in the branch that reports an action it cannot send
C13_OnlyUnknownActionsDropped ==
    [][call'.op = "key"
           => /\ call'.action \notin {Press, Release, Repeat}
                  => /\ keyEvents' = <<>>
                     /\ textCalls' = <<>>
                     /\ UNCHANGED <<store, clipboard>>
              /\ call'.action \in {Press, Release, Repeat} => diag' # "action"]_vars

\* the flags the key callback computed for the event it ran on last
Flags == Classify(call.mods)
FlagsSet(c) ==
    (IF c.modsIsModfifier THEN 1 ELSE 0) + (IF c.modsIsShift THEN 1 ELSE 0)
    + (IF c.modsIsWordModifierShift THEN 1 ELSE 0) + (IF c.modsIsWordModifier THEN 1 ELSE 0)
\* the Platform Key Profile, as the spec names its parts
PrimaryModifier == IF goos = "darwin" THEN {"super"} ELSE {"control"}
WordTravelModifier == IF goos = "darwin" THEN {"alt"} ELSE {"control"}
WordTravelExtendModifier == IF goos = "darwin" THEN {"alt", "shift"} ELSE {"control", "shift"}
\* the modifiers held in a glfw modifier set
Held(mods) ==
    (IF ShiftHeld(mods) THEN {"shift"} ELSE {})
    \cup (IF ControlHeld(mods) THEN {"control"} ELSE {})
    \cup (IF AltHeld(mods) THEN {"alt"} ELSE {})
    \cup (IF SuperHeld(mods) THEN {"super"} ELSE {})

\* C14 as stated: on either platform a modifier set equal to the primary
\* modifier sets the primary flag, one equal to the word travel modifier the
\* word travel flag, one equal to the word travel extend modifier the word
\* travel extend flag, shift alone the shift flag, any other set no flag, and
\* at most one flag is set
C14_ExactMatchClass ==
    call.op = "key"
        => LET h == Held(call.mods)
           IN  /\ FlagsSet(Flags) <= 1
               /\ h = PrimaryModifier => Flags.modsIsModfifier
               /\ h = WordTravelModifier => Flags.modsIsWordModifier
               /\ h = WordTravelExtendModifier => Flags.modsIsWordModifierShift
               /\ h = {"shift"} => Flags.modsIsShift
               /\ h \notin {PrimaryModifier, WordTravelModifier,
                             WordTravelExtendModifier, {"shift"}} => FlagsSet(Flags) = 0

\* C14 as amended: the classes are tried in the order word travel extend,
\* word travel, primary, shift, and the first that equals the held set gives
\* the one flag set; a set equal to none of them sets no flag.  Where the
\* primary modifier is the word travel modifier (the default profile), that
\* set classifies as word travel
C14_FirstMatchClass ==
    call.op = "key"
        => LET h == Held(call.mods)
           IN  /\ FlagsSet(Flags) <= 1
               /\ Flags.modsIsWordModifierShift <=> h = WordTravelExtendModifier
               /\ Flags.modsIsWordModifier
                      <=> (h = WordTravelModifier /\ h # WordTravelExtendModifier)
               /\ Flags.modsIsModfifier
                      <=> (h = PrimaryModifier /\ h # WordTravelModifier
                              /\ h # WordTravelExtendModifier)
               /\ Flags.modsIsShift
                      <=> (h = {"shift"} /\ h # PrimaryModifier /\ h # WordTravelModifier
                              /\ h # WordTravelExtendModifier)

C14_Witness ==
    /\ goos = "default"
    /\ IsKeyCall(KeyB, Press)
    /\ clientID # 0
    /\ Held(call.mods) = PrimaryModifier
    /\ Flags.modsIsWordModifier
    /\ ~Flags.modsIsModfifier

\* the text with the selected range replaced by chars, the caret being the
\* lower end of the selection
Replaced(chars) ==
    LET lo == Min(selectionBase, selectionExtent)
        hi == Max(selectionBase, selectionExtent)
    IN  SubSeq(word, 1, lo) \o chars \o SubSeq(word, hi + 1, Len(word))

\* C15: with a client focused, a press or repeat of Enter with no modifier
\* inserts one newline at the caret and then fires "newline"; with exactly the
\* primary modifier it fires "done" and inserts nothing; with any other
\* modifier set it changes nothing and fires nothing
C15_EnterByModifier ==
    [][(/\ call'.op = "key"
        /\ call'.key = KeyEnter
        /\ call'.action \in {Press, Repeat}
        /\ clientID # 0)
           => IF call'.mods = 0
              THEN /\ word' = Replaced(<<Newline>>)
                   /\ selectionBase' = Min(selectionBase, selectionExtent) + 1
                   /\ selectionExtent' = selectionBase'
                   /\ Len(textCalls') > 0
                   /\ textCalls'[Len(textCalls')] = ActionCall("newline")
              ELSE IF Held(call'.mods) = PrimaryModifier
              THEN /\ UNCHANGED <<word, selectionBase, selectionExtent>>
                   /\ textCalls' = <<ActionCall("done")>>
              ELSE /\ UNCHANGED <<word, selectionBase, selectionExtent>>
                   /\ textCalls' = <<>>]_vars

\* the selected text
Selected ==
    SubSeq(word, Min(selectionBase, selectionExtent) + 1, Max(selectionBase, selectionExtent))

\* C16: with a client focused, a press or repeat of the select-all, copy, cut
\* or paste key under a modifier set other than the primary modifier changes
\* neither text, selection nor clipboard; copy and cut change nothing when
\* base = extent; copy with a selection puts the selected text on the
\* clipboard and leaves text and selection alone; cut with a selection puts
\* the selected text on the clipboard and removes it from the text
C16_ShortcutsNeedPrimaryModifier ==
    [][(/\ call'.op = "key"
        /\ call'.key \in {keyboardLayout.SelectAll, keyboardLayout.Copy,
                           keyboardLayout.Cut, keyboardLayout.Paste}
        /\ call'.action \in {Press, Repeat}
        /\ clientID # 0)
           => /\ Held(call'.mods) # PrimaryModifier
                  => /\ UNCHANGED <<word, selectionBase, selectionExtent, clipboard>>
                     /\ textCalls' = <<>>
              /\ (/\ call'.key \in {keyboardLayout.Copy, keyboardLayout.Cut}
                  /\ selectionBase = selectionExtent)
                  => /\ UNCHANGED <<word, selectionBase, selectionExtent, clipboard>>
                     /\ textCalls' = <<>>
              /\ (/\ call'.key = keyboardLayout.Copy
                  /\ Held(call'.mods) = PrimaryModifier
                  /\ selectionBase # selectionExtent)
                  => /\ clipboard' = Selected
                     /\ UNCHANGED <<word, selectionBase, selectionExtent>>
              /\ (/\ call'.key = keyboardLayout.Cut
                  /\ Held(call'.mods) = PrimaryModifier
                  /\ selectionBase # selectionExtent)
                  => /\ clipboard' = Selected
                     /\ word' = Replaced(<<>>)
                     /\ selectionBase' = Min(selectionBase, selectionExtent)
                     /\ selectionExtent' = selectionBase']_vars

\* a cut has moved the whole text to the clipboard
C16_Witness ==
    /\ IsKeyCall(keyboardLayout.Cut, Press)
    /\ Held(call.mods) = PrimaryModifier
    /\ clientID # 0
    /\ clipboard = <<Newline, Newline>>
    /\ word = <<>>
    /\ selectionBase = 0
    /\ selectionExtent = 0

\* C17: every setEditingState either succeeds and replaces text, selection
\* base and selection extent by the three decoded values, or, with no client
\* focused or a payload that does not decode, replies with an error and
\* changes none of the three
C17_SetEditingStateAllOrNothing ==
    [][call'.op = "setEditingState"
           => \A arguments \in AtomicPayloads :
                  handleSetEditingState(arguments)
                      => LET d == UnmarshalEditingState(arguments)
                         IN  IF clientID = 0 \/ d.err
                             THEN /\ reply' \in {"noClient", "decodeError"}
                                  /\ UNCHANGED <<word, selectionBase, selectionExtent>>
                             ELSE /\ reply' = "ok"
                                  /\ word' = d.Text
                                  /\ selectionBase' = d.SelectionBase
                                  /\ selectionExtent' = d.SelectionExtent]_vars

\* a payload with a field of the wrong type is refused while a client is
\* focused and a text with a selection is in the store
C17_Witness ==
    /\ call.op = "setEditingState"
    /\ call.arg = "object"
    /\ reply = "decodeError"
    /\ clientID = 1
    /\ word = <<"a", "a">>
    /\ selectionBase = MaxLen
    /\ selectionExtent = 0

\* C18: every keyup sent on flutter/keyevent is for a key code the engine has
\* received a keydown for and no keyup since, Escape included and whatever
\* the focus did in between
C18_KeyUpFollowsKeyDown ==
    [][call'.op = "key"
           => \A i \in 1..Len(keyEvents') :
                  keyEvents'[i].type = "keyup" => keyEvents'[i].keyCode \in engineDown]_vars

\* C19: with a client focused, a repeat leaves the text and the selection
\* (and the clipboard) that a press of the same key under the same modifiers
\* would leave from the same state, and sends nothing on flutter/keyevent; a
\* release changes neither client, text, selection nor clipboard
C19_RepeatEditsLikePress ==
    [][call'.op = "key"
           => /\ (call'.action = Repeat /\ clientID # 0)
                  => /\ keyEvents' = <<>>
                     /\ \E key \in {call'.key}, mods \in {call'.mods},
                           clipErr \in {diag' = "clipboard"}, popErr \in {FALSE},
                           w \in {word'}, b \in {selectionBase'}, e \in {selectionExtent'},
                           c \in {clipboard'} :
                            ENABLED (/\ glfwKeyCallback(key, Press, mods, clipErr, popErr)
                                     /\ word' = w
                                     /\ selectionBase' = b
                                     /\ selectionExtent' = e
                                     /\ clipboard' = c
                                     /\ UNCHANGED keyboard)
              /\ call'.action = Release => UNCHANGED <<store, clipboard>>]_vars

\* Enter has repeated on a text of one newline
C19_Witness ==
    /\ IsKeyCall(KeyEnter, Repeat)
    /\ clientID # 0
    /\ word = <<Newline, Newline>>
    /\ selectionBase = 2
    /\ keyEvents = <<>>
    /\ diag = "action"

====
